---- MODULE Spec2Model ----
(***************************************************************************)
(* kvakk-git-tools: platform detection, run() and main()                   *)
(* (kvakk_git_tools/ssb_gitconfig.py), validation of the local git         *)
(* configuration against the recommended one                               *)
(* (kvakk_git_tools/validate_ssb_gitconfig.py) and of the local git files  *)
(* (kvakk_git_tools/validate_ssb_local_git_files.py).                      *)
(***************************************************************************)
EXTENDS Integers, Sequences, FiniteSets, TLC

VARIABLES
    env,          \* the machine: OS, environment variables, network, ping binary
    pc,           \* "start" | "constructed" | "raised" (Platform() raised)
    platform,     \* the fields of the Platform object
    probes,       \* hosts pinged so far, in order
    names,        \* values returned by the calls of platform.name() so far
    supported,    \* values returned by the calls of platform.is_supported()
    unsupported,  \* values returned by the calls of platform.is_unsupported()
    gitconfig,    \* the local file at git_config_path
    recommended,  \* the packaged file recommended/gitconfig-<platform name>
    ssb_config,   \* the dictionary built from the recommended file
    local_config, \* the dictionary built from the local file
    result,       \* outcome of _validate_platform_git_config
    python_minor, \* sys.version_info.minor of the interpreter (major is 3)
    gitignore,    \* the local file .gitignore
    gitattributes,      \* the local file .gitattributes
    ssb_gitignore,      \* the packaged file recommended/gitignore
    ssb_gitattributes,  \* the packaged file recommended/gitattributes
    files_result, \* outcome of _validate_local_git_files
    argv,         \* the options on the command line of run()
    package_installed,  \* kvakk_git_tools_package_installed()
    original,     \* ~/.gitconfig as it was when run() started
    backup,       \* the file ~/.gitconfig_<timestamp>
    tempdir,      \* ~/temp-ssb-gitconfig: "absent" | "present"
    created,      \* the run has created ~/temp-ssb-gitconfig
    clone_attempted,    \* the run has started git clone
    repo,         \* the outcome of git clone, and the recommended files it delivers
    user_input,   \* what the user types when asked for name and email
    identity,     \* name and email in main()
    prompted,     \* request_name_email() was called
    main_called,  \* main() was called
    exit_code     \* exit status of the process, "running" before it ends

classifier_vars == <<env, pc, platform, probes, names, supported, unsupported>>
validator_vars == <<gitconfig, recommended, ssb_config, local_config, result>>
files_vars ==
    <<python_minor, gitignore, gitattributes, ssb_gitignore, ssb_gitattributes,
      files_result>>
run_vars ==
    <<argv, package_installed, original, backup, tempdir, created,
      clone_attempted, repo, user_input, identity, prompted, main_called,
      exit_code>>
vars == <<classifier_vars, validator_vars, files_vars, run_vars>>

-----------------------------------------------------------------------------
(* Bounds *)

\* number of calls of each query method on one Platform object
MaxCalls == 2

\* number of lines of a local configuration file
MaxLines == 5

\* number of lines of a local .gitignore or .gitattributes
MaxFileLines == 2

-----------------------------------------------------------------------------
(* PlatformName *)

DAPLA == "dapla"
PROD_LINUX == "prod-linux"
PROD_WINDOWS_CITRIX == "prod-windows-citrix"
PROD_WINDOWS_VDI == "prod-windows-vdi"
ADM_WINDOWS == "adm-windows"
ADM_MAC == "adm-mac"
UNKNOWN == "unknown"

PlatformName ==
    {DAPLA, PROD_LINUX, PROD_WINDOWS_CITRIX, PROD_WINDOWS_VDI,
     ADM_WINDOWS, ADM_MAC, UNKNOWN}

-----------------------------------------------------------------------------
(* The machine the script runs on *)

\* os.environ.get(...) of a variable that is not set
None == "None"

\* values of platform.system(); "Java" stands for any other system
OSNames == {"Linux", "Windows", "Darwin", "Java"}

\* values of the environment variable DAPLA_REGION
DaplaRegions == {None, "DAPLA_LAB", "BIP", "CLOUD_RUN"}

\* strings, as sequences of characters
ICA == <<"I", "C", "A">>
ICA_TCP == <<"I", "C", "A", "-", "t", "c", "p">>
RDP_ICA == <<"R", "D", "P", "-", "I", "C", "A">>
LOWER_ICA == <<"i", "c", "a">>
CONSOLE == <<"C", "o", "n", "s", "o", "l", "e">>

SessionStrings == { << >>, ICA_TCP, RDP_ICA, LOWER_ICA, CONSOLE }

\* the environment variable SESSIONNAME: not set, or set to a string
SessionUnset == [isset |-> FALSE, value |-> << >>]

SessionNames ==
    {SessionUnset} \cup {[isset |-> TRUE, value |-> s] : s \in SessionStrings}

PROD_HOST == "sl-jupyter-p.ssb.no"
ADM_HOST == "aw-dc04.ssb.no"
Hosts == {PROD_HOST, ADM_HOST}

\* what happens to one echo request sent to a host
PingOutcomes == {"reply", "unreachable", "dns_failure", "timeout"}

Envs ==
    [ os : OSNames,
      DAPLA_REGION : DaplaRegions,
      SESSIONNAME : SessionNames,
      net : [Hosts -> PingOutcomes],
      ping_installed : BOOLEAN ]

-----------------------------------------------------------------------------
(* ping *)

\* the exit code of the ping command: 0 only for a reply before the timeout
PingReturnCode(e, host) == IF e.net[host] = "reply" THEN 0 ELSE 1

\* subprocess.run raises (FileNotFoundError) when the command cannot be started
PingRaises(e) == ~e.ping_installed

ping(e, host) == PingReturnCode(e, host) = 0

-----------------------------------------------------------------------------
(* Platform *)

\* Python's  sub in s  for strings
Contains(s, sub) ==
    \E i \in 0..(Len(s) - Len(sub)) :
        \A j \in 1..Len(sub) : s[i + j] = sub[j]

NoPlatform == [ linux |-> FALSE, windows |-> FALSE, dapla |-> FALSE,
                prod_zone |-> FALSE, adm_zone |-> FALSE, citrix |-> FALSE,
                mac |-> FALSE ]

\* mutant: the second region forgotten
IsDaplaRegion_OnlyLab(e) == e.DAPLA_REGION = "DAPLA_LAB"

IsDaplaRegion(e) == e.DAPLA_REGION = "DAPLA_LAB" \/ e.DAPLA_REGION = "BIP"

\* session_name is not None and "ICA" in session_name
IsCitrixSession(e) == e.SESSIONNAME.isset /\ Contains(e.SESSIONNAME.value, ICA)

\* mutant: both hosts pinged whatever the first answer
PlatformProbes_Both(e) ==
    IF IsDaplaRegion(e) THEN << >> ELSE <<PROD_HOST, ADM_HOST>>

\* the hosts Platform.__init__ pings, in order
PlatformProbes(e) ==
    IF IsDaplaRegion(e) THEN << >>
    ELSE IF ping(e, PROD_HOST) THEN <<PROD_HOST>>
    ELSE <<PROD_HOST, ADM_HOST>>

\* Platform.__init__ raises when it has to ping and ping raises
PlatformInitRaises(e) == ~IsDaplaRegion(e) /\ PingRaises(e)

\* the fields Platform.__init__ sets when it returns
PlatformFields(e) ==
    LET dapla == IsDaplaRegion(e)
        prod_zone == IF dapla THEN FALSE ELSE ping(e, PROD_HOST)
        adm_zone == IF dapla \/ prod_zone THEN FALSE ELSE ping(e, ADM_HOST)
        citrix == IF dapla THEN FALSE ELSE IsCitrixSession(e)
    IN  [ linux |-> e.os = "Linux",
          windows |-> e.os = "Windows",
          mac |-> e.os = "Darwin",
          dapla |-> dapla,
          prod_zone |-> prod_zone,
          adm_zone |-> adm_zone,
          citrix |-> citrix ]

\* mutant: the citrix flag not consulted in the production zone
name_CitrixIgnored(p) ==
    IF p.prod_zone /\ p.linux THEN PROD_LINUX
    ELSE IF p.prod_zone /\ p.windows THEN PROD_WINDOWS_VDI
    ELSE IF p.dapla THEN DAPLA
    ELSE IF p.adm_zone /\ p.windows THEN ADM_WINDOWS
    ELSE IF p.adm_zone /\ p.mac THEN ADM_MAC
    ELSE UNKNOWN

\* mutant: no Mac in the admin zone
name_AdmMacMissing(p) ==
    IF p.prod_zone /\ p.linux THEN PROD_LINUX
    ELSE IF p.prod_zone /\ p.windows /\ p.citrix THEN PROD_WINDOWS_CITRIX
    ELSE IF p.prod_zone /\ p.windows THEN PROD_WINDOWS_VDI
    ELSE IF p.dapla THEN DAPLA
    ELSE IF p.adm_zone /\ p.windows THEN ADM_WINDOWS
    ELSE UNKNOWN

\* mutant: everything in the production zone that is not Windows taken for Linux
name_ProdDefaultsToLinux(p) ==
    IF p.prod_zone /\ p.windows /\ p.citrix THEN PROD_WINDOWS_CITRIX
    ELSE IF p.prod_zone /\ p.windows THEN PROD_WINDOWS_VDI
    ELSE IF p.prod_zone THEN PROD_LINUX
    ELSE IF p.dapla THEN DAPLA
    ELSE IF p.adm_zone /\ p.windows THEN ADM_WINDOWS
    ELSE IF p.adm_zone /\ p.mac THEN ADM_MAC
    ELSE UNKNOWN

name(p) ==
    IF p.prod_zone /\ p.linux THEN PROD_LINUX
    ELSE IF p.prod_zone /\ p.windows /\ p.citrix THEN PROD_WINDOWS_CITRIX
    ELSE IF p.prod_zone /\ p.windows THEN PROD_WINDOWS_VDI
    ELSE IF p.dapla THEN DAPLA
    ELSE IF p.adm_zone /\ p.windows THEN ADM_WINDOWS
    ELSE IF p.adm_zone /\ p.mac THEN ADM_MAC
    ELSE UNKNOWN

\* mutant: the VDI platform forgotten in the list
Unsupported_WithoutVdi == {ADM_WINDOWS, ADM_MAC, UNKNOWN}

Unsupported == {PROD_WINDOWS_VDI, ADM_WINDOWS, ADM_MAC, UNKNOWN}

is_unsupported(p) == name(p) \in Unsupported

is_supported(p) == ~is_unsupported(p)

-----------------------------------------------------------------------------
(* Configuration files *)

\* a file that does not exist, and a file with the given lines
NoFile == [exists |-> FALSE, text |-> << >>]
File(text) == [exists |-> TRUE, text |-> text]

\* the lines of a configuration text:  [section]  and  key = value
Section(sec) == [kind |-> "section", key |-> sec, value |-> ""]
Option(key, value) == [kind |-> "option", key |-> key, value |-> value]

\* the lines a local file is made of
Lines ==
    { Section("user"), Section("core"),
      Option("name", "x"), Option("name", ""), Option("email", "x"),
      Option("autocrlf", "x"), Option("autocrlf", "y") }

RECURSIVE Texts(_)
\* the texts of at most n lines
Texts(n) ==
    IF n = 0 THEN { << >> }
    ELSE Texts(n - 1) \cup
         { Append(t, l) : t \in {u \in Texts(n - 1) : Len(u) = n - 1}, l \in Lines }

\* the local files: none, or any text of at most MaxLines lines
LocalFiles == {NoFile} \cup {File(t) : t \in Texts(MaxLines)}

\* contents of a packaged recommended file
RECOMMENDED_EMPTY == << >>
RECOMMENDED_CORE == << Section("core"), Option("autocrlf", "x") >>
RECOMMENDED_USER == << Section("user"), Option("name", "x") >>
RECOMMENDED_BOTH ==
    << Section("core"), Option("autocrlf", "y"), Section("user"), Option("email", "x") >>

RECOMMENDED_FULL ==
    << Section("user"), Option("name", "x"), Option("email", "x") >>

RecommendedTexts ==
    { RECOMMENDED_EMPTY, RECOMMENDED_CORE, RECOMMENDED_USER, RECOMMENDED_BOTH,
      RECOMMENDED_FULL }

\* a dictionary without sections
EmptyConf == << >>

\* configparser.ConfigParser().read_string(text), then the dictionary
\* {section: dict(items(section)) for section in sections()}; the parser is
\* strict: a repeated section or option raises, as does an option before the
\* first section header
RECURSIVE ReadFrom(_, _, _, _)
ReadFrom(text, i, cursect, conf) ==
    IF i > Len(text) THEN [error |-> "none", conf |-> conf]
    ELSE LET line == text[i] IN
         IF line.kind = "section"
         THEN IF line.key \in DOMAIN conf
              THEN [error |-> "DuplicateSectionError", conf |-> EmptyConf]
              ELSE ReadFrom(text, i + 1, line.key, conf @@ (line.key :> << >>))
         ELSE IF cursect = None
              THEN [error |-> "MissingSectionHeaderError", conf |-> EmptyConf]
              ELSE IF line.key \in DOMAIN conf[cursect]
                   THEN [error |-> "DuplicateOptionError", conf |-> EmptyConf]
                   ELSE ReadFrom(text, i + 1, cursect,
                            [conf EXCEPT ![cursect] = @ @@ (line.key :> line.value)])

read_string(text) == ReadFrom(text, 1, None, EmptyConf)

-----------------------------------------------------------------------------
(* _validate_platform_git_config *)

\* mutant: the value not compared
check_config_KeyOnly(expected_value, actual_conf, section, key) ==
    IF section \notin DOMAIN actual_conf THEN FALSE
    ELSE key \in DOMAIN actual_conf[section]

check_config(expected_value, actual_conf, section, key) ==
    IF section \notin DOMAIN actual_conf THEN FALSE
    ELSE IF key \notin DOMAIN actual_conf[section] THEN FALSE
    ELSE expected_value = actual_conf[section][key]

\* mutant: one of name and email is enough
UserIncomplete_Any(conf) ==
    /\ "user" \in DOMAIN conf
    /\ ~(\E key \in {"name", "email"} : key \in DOMAIN conf["user"])

\* the [user] section exists and name or email is not set in it
UserIncomplete(conf) ==
    /\ "user" \in DOMAIN conf
    /\ ~(\A key \in {"name", "email"} : key \in DOMAIN conf["user"])

\* mutant: the two dictionaries must be the same
CompareConfigs_Same(ssb, local) ==
    IF UserIncomplete(local) THEN FALSE ELSE ssb = local

\* mutant: a local configuration without a user section is rejected
CompareConfigs_UserRequired(ssb, local) ==
    IF "user" \notin DOMAIN local \/ UserIncomplete(local) THEN FALSE
    ELSE \A section \in DOMAIN ssb :
            \A key \in DOMAIN ssb[section] :
                check_config(ssb[section][key], local, section, key)

\* the comparison of the two dictionaries
CompareConfigs(ssb, local) ==
    IF UserIncomplete(local) THEN FALSE
    ELSE \A section \in DOMAIN ssb :
            \A key \in DOMAIN ssb[section] :
                check_config(ssb[section][key], local, section, key)

\* mutant: the local file looked for before the platform is checked
ValidateOutcome_FileFirst(file, p, rec) ==
    LET nothing(r) == [result |-> r, ssb |-> EmptyConf, local |-> EmptyConf]
    IN  IF ~file.exists THEN nothing("FileExistsError")
        ELSE IF is_unsupported(p) THEN nothing("False")
        ELSE LET ssb == read_string(rec.text)
                 local == read_string(file.text)
             IN  IF ssb.error # "none" THEN nothing(ssb.error)
                 ELSE IF local.error # "none"
                      THEN [result |-> local.error, ssb |-> ssb.conf, local |-> EmptyConf]
                 ELSE [ result |-> IF CompareConfigs(ssb.conf, local.conf)
                                   THEN "True" ELSE "False",
                        ssb |-> ssb.conf,
                        local |-> local.conf ]

\* mutant: a missing local file read as an empty one
ValidateOutcome_MissingIsEmpty(file, p, rec) ==
    LET nothing(r) == [result |-> r, ssb |-> EmptyConf, local |-> EmptyConf]
    IN  IF is_unsupported(p) THEN nothing("False")
        ELSE LET ssb == read_string(rec.text)
                 local == read_string(file.text)
             IN  IF ssb.error # "none" THEN nothing(ssb.error)
                 ELSE IF local.error # "none"
                      THEN [result |-> local.error, ssb |-> ssb.conf, local |-> EmptyConf]
                 ELSE [ result |-> IF CompareConfigs(ssb.conf, local.conf)
                                   THEN "True" ELSE "False",
                        ssb |-> ssb.conf,
                        local |-> local.conf ]

\* what _validate_platform_git_config returns or raises, with the dictionaries
\* it has built by then
ValidateOutcome(file, p, rec) ==
    LET nothing(r) == [result |-> r, ssb |-> EmptyConf, local |-> EmptyConf]
    IN  IF is_unsupported(p) THEN nothing("False")
        ELSE IF ~file.exists THEN nothing("FileExistsError")
        ELSE LET ssb == read_string(rec.text)
                 local == read_string(file.text)
             IN  IF ssb.error # "none" THEN nothing(ssb.error)
                 ELSE IF local.error # "none"
                      THEN [result |-> local.error, ssb |-> ssb.conf, local |-> EmptyConf]
                 ELSE [ result |-> IF CompareConfigs(ssb.conf, local.conf)
                                   THEN "True" ELSE "False",
                        ssb |-> ssb.conf,
                        local |-> local.conf ]

-----------------------------------------------------------------------------
(* _validate_local_git_files *)

\* the lines of a .gitignore or .gitattributes, without the line end
RawLines ==
    { << >>,
      <<"a">>,
      <<"a", " ">>,
      <<"b">>,
      <<"#", "a">>,
      <<" ", "#">> }

RECURSIVE RawTexts(_)
\* the files of at most n lines
RawTexts(n) ==
    IF n = 0 THEN { << >> }
    ELSE RawTexts(n - 1) \cup
         { Append(t, l) : t \in {u \in RawTexts(n - 1) : Len(u) = n - 1},
                          l \in RawLines }

\* the local files: none, or any file of at most MaxFileLines lines
LocalGitFiles == {NoFile} \cup {File(t) : t \in RawTexts(MaxFileLines)}

\* contents of the packaged recommended/gitignore and recommended/gitattributes
RecommendedGitFiles ==
    { File(<< <<"#", "a">>, <<"a">> >>),
      File(<< <<"a", " ">>, << >>, <<"b">> >>),
      File(<< <<"b">>, <<"b">> >>) }

\* the interpreters the package runs on
PythonMinors == {9, 10}

RECURSIVE rstrip(_)
\* str.rstrip()
rstrip(line) ==
    IF line # << >> /\ line[Len(line)] = " "
    THEN rstrip(SubSeq(line, 1, Len(line) - 1))
    ELSE line

\* str.startswith('#')
startswith_hash(line) == line # << >> /\ line[1] = "#"

RECURSIVE ReadLinesFrom(_, _)
ReadLinesFrom(text, i) ==
    IF i > Len(text) THEN << >>
    ELSE LET stripped_line == rstrip(text[i])
         IN  IF ~startswith_hash(stripped_line)
             THEN <<stripped_line>> \o ReadLinesFrom(text, i + 1)
             ELSE ReadLinesFrom(text, i + 1)

read_local_git_file(file) == ReadLinesFrom(file.text, 1)

\* line in lines
InList(line, lines) == \E i \in DOMAIN lines : lines[i] = line

\* all(line in lines for line in wanted)
AllIn(wanted, lines) == \A i \in DOMAIN wanted : InList(wanted[i], lines)

\* what _validate_local_git_files returns or raises
ValidateLocalGitFiles(minor, ignore, attributes, ssb_ignore, ssb_attributes) ==
    IF ~ignore.exists THEN "FileExistsError"
    ELSE IF ~attributes.exists THEN "FileExistsError"
    ELSE IF minor < 10 THEN "TypeError"
    ELSE IF /\ AllIn(read_local_git_file(ssb_ignore), read_local_git_file(ignore))
            /\ AllIn(read_local_git_file(ssb_attributes),
                     read_local_git_file(attributes))
         THEN "True" ELSE "False"

-----------------------------------------------------------------------------
(* git config, as main() uses it *)

\* no name, no email
NoIdentity == [name |-> None, email |-> None]

\* the identity main() uses when testing
JohnDoe == [name |-> "John Doe", email |-> "johndoe@example.com"]

\* the section an option line j of the text belongs to
SectionAt(text, j) ==
    LET hs == {h \in 1..(j - 1) : text[h].kind = "section"}
    IN  IF hs = {} THEN None
        ELSE text[CHOOSE h \in hs : \A g \in hs : g <= h].key

\* the lines of the text that set sec.key
Settings(text, sec, key) ==
    { j \in DOMAIN text :
        text[j].kind = "option" /\ text[j].key = key /\ SectionAt(text, j) = sec }

\* git cannot read a text that sets a key before the first section header
BadConfig(text) == text # << >> /\ text[1].kind = "option"

\* the output of  git config --get sec.key : nothing when the key is not set
\* or the file cannot be read, else the last value set
GitConfigGet(file, sec, key) ==
    LET js == Settings(file.text, sec, key)
    IN  IF ~file.exists \/ js = {} \/ BadConfig(file.text)
        THEN [found |-> FALSE, value |-> ""]
        ELSE [found |-> TRUE,
              value |-> file.text[CHOOSE j \in js : \A k \in js : k <= j].value]

\* None if result.stdout == "" else result.stdout.strip()
get_gitconfig_element(file, sec, key) ==
    LET out == GitConfigGet(file, sec, key)
    IN  IF out.found THEN out.value ELSE None

extract_name_email(file) ==
    [ name |-> get_gitconfig_element(file, "user", "name"),
      email |-> get_gitconfig_element(file, "user", "email") ]

\* the truth value of an Optional[str]
Truthy(v) == v # None /\ v # ""

\* mutant: one of the two is enough
HasIdentity_Either(id) == Truthy(id.name) \/ Truthy(id.email)

\* name and email
HasIdentity(id) == Truthy(id.name) /\ Truthy(id.email)

\* text with the line inserted after line j
InsertAfter(text, j, line) ==
    SubSeq(text, 1, j) \o <<line>> \o SubSeq(text, j + 1, Len(text))

\* git config --global sec.key value : the value replaced where the key is set,
\* else the key added at the end of the section, else the section added
GitConfigSet(text, sec, key, value) ==
    LET js == Settings(text, sec, key)
        hs == {h \in DOMAIN text : text[h] = Section(sec)}
    IN  IF js # {}
        THEN [text EXCEPT ![CHOOSE j \in js : \A k \in js : k <= j].value = value]
        ELSE IF hs # {}
        THEN LET h == CHOOSE h \in hs : \A g \in hs : g <= h
                 body == {m \in h..Len(text) :
                            \A i \in (h + 1)..m : text[i].kind = "option"}
             IN  InsertAfter(text, CHOOSE m \in body : \A n \in body : n <= m,
                             Option(key, value))
        ELSE text \o <<Section(sec), Option(key, value)>>

set_name_email(text, id) ==
    GitConfigSet(GitConfigSet(text, "user", "name", id.name),
                 "user", "email", id.email)

\* str.replace(old_text, new_text) on a word of the texts: none of them holds
\* old_text as a proper part
ReplaceWord(old_text, new_text, word) == IF word = old_text THEN new_text ELSE word

replace_text_in_file(old_text, new_text, text) ==
    [ j \in DOMAIN text |->
        [ kind |-> text[j].kind,
          key |-> ReplaceWord(old_text, new_text, text[j].key),
          value |-> ReplaceWord(old_text, new_text, text[j].value) ] ]

\* getpass.getuser()
windows_username == "alice"

\* mutant: no backup written
backup_gitconfig_Nothing(file) == NoFile

\* the backup file backup_gitconfig writes
backup_gitconfig(file) == IF file.exists THEN File(file.text) ELSE NoFile

\* the content set_base_config writes to ~/.gitconfig
BaseConfig(p, text) ==
    IF name(p) = PROD_WINDOWS_CITRIX
    THEN replace_text_in_file("username", windows_username, text)
    ELSE text

\* mutant: an unsupported platform never ends main
Aborts_Never(p, test) == FALSE

\* main: not test and detected_platform.is_unsupported()
Aborts(p, test) == ~test /\ is_unsupported(p)

\* set_base_config: the platform name in the name of the file src
SrcLabel(p, test) == IF test THEN DAPLA ELSE name(p)

\* mutant: an existing directory is used as it is
TempDirRaises_Never(dir) == FALSE

\* TempDir(temp_dir): if temp_dir.exists(): raise RuntimeError
TempDirRaises(dir) == dir = "present"

\* mutant: --validate accepted without the package
ValidateEnabled_Always(installed) == TRUE

\* enable_additional_package_arguments: --validate is an option of the parser
ValidateEnabled(installed) == installed

-----------------------------------------------------------------------------
(* Specification of the classifier *)

\* _validate_local_git_files is not called
FilesIdle ==
    /\ python_minor = 10
    /\ gitignore = NoFile
    /\ gitattributes = NoFile
    /\ ssb_gitignore = NoFile
    /\ ssb_gitattributes = NoFile
    /\ files_result = "none"

\* nothing to clone
NoRepo == [status |-> "clone_failed", files |-> << >>]

\* run() is not called
RunIdle ==
    /\ argv = {}
    /\ package_installed = FALSE
    /\ original = NoFile
    /\ backup = NoFile
    /\ tempdir = "absent"
    /\ created = FALSE
    /\ clone_attempted = FALSE
    /\ repo = NoRepo
    /\ user_input = NoIdentity
    /\ identity = NoIdentity
    /\ prompted = FALSE
    /\ main_called = FALSE
    /\ exit_code = "running"

Init ==
    /\ env \in Envs
    /\ pc = "start"
    /\ platform = NoPlatform
    /\ probes = << >>
    /\ names = << >>
    /\ supported = << >>
    /\ unsupported = << >>
    /\ gitconfig = NoFile
    /\ recommended = NoFile
    /\ ssb_config = EmptyConf
    /\ local_config = EmptyConf
    /\ result = "none"
    /\ FilesIdle
    /\ RunIdle

\* detected_platform = Platform(), returning
PlatformInit ==
    /\ pc = "start"
    /\ ~PlatformInitRaises(env)
    /\ pc' = "constructed"
    /\ platform' = PlatformFields(env)
    /\ probes' = PlatformProbes(env)
    /\ UNCHANGED <<env, names, supported, unsupported>>
    /\ UNCHANGED <<validator_vars, files_vars, run_vars>>

\* detected_platform = Platform(), the first ping raising
PlatformInitFails ==
    /\ pc = "start"
    /\ PlatformInitRaises(env)
    /\ pc' = "raised"
    /\ probes' = <<PROD_HOST>>
    /\ UNCHANGED <<env, platform, names, supported, unsupported>>
    /\ UNCHANGED <<validator_vars, files_vars, run_vars>>

\* detected_platform.name()
CallName ==
    /\ pc = "constructed"
    /\ Len(names) < MaxCalls
    /\ names' = Append(names, name(platform))
    /\ UNCHANGED <<env, pc, platform, probes, supported, unsupported>>
    /\ UNCHANGED <<validator_vars, files_vars, run_vars>>

\* detected_platform.is_unsupported()
CallIsUnsupported ==
    /\ pc = "constructed"
    /\ Len(unsupported) < MaxCalls
    /\ unsupported' = Append(unsupported, is_unsupported(platform))
    /\ UNCHANGED <<env, pc, platform, probes, names, supported>>
    /\ UNCHANGED <<validator_vars, files_vars, run_vars>>

\* detected_platform.is_supported()
CallIsSupported ==
    /\ pc = "constructed"
    /\ Len(supported) < MaxCalls
    /\ supported' = Append(supported, is_supported(platform))
    /\ UNCHANGED <<env, pc, platform, probes, names, unsupported>>
    /\ UNCHANGED <<validator_vars, files_vars, run_vars>>

Next ==
    \/ PlatformInit
    \/ PlatformInitFails
    \/ CallName
    \/ CallIsUnsupported
    \/ CallIsSupported

Spec == Init /\ [][Next]_vars

-----------------------------------------------------------------------------
(* Specification of the validator *)

\* one machine for each platform name
Machine(os, region, session, prod, adm) ==
    [ os |-> os,
      DAPLA_REGION |-> region,
      SESSIONNAME |-> session,
      net |-> (PROD_HOST :> prod @@ ADM_HOST :> adm),
      ping_installed |-> TRUE ]

Machines ==
    { Machine("Linux", "DAPLA_LAB", SessionUnset, "unreachable", "unreachable"),
      Machine("Linux", None, SessionUnset, "reply", "reply"),
      Machine("Windows", None, [isset |-> TRUE, value |-> ICA_TCP], "reply", "reply"),
      Machine("Windows", None, [isset |-> TRUE, value |-> CONSOLE], "reply", "reply"),
      Machine("Windows", None, SessionUnset, "timeout", "reply"),
      Machine("Darwin", None, SessionUnset, "timeout", "reply"),
      Machine("Linux", None, SessionUnset, "dns_failure", "dns_failure") }

\* the package holds a recommended file for the supported platforms only
RecommendedFiles(p) ==
    IF is_unsupported(p) THEN {NoFile} ELSE {File(t) : t \in RecommendedTexts}

\* a Platform object has been constructed; a local file may exist
InitValidate ==
    /\ env \in Machines
    /\ pc = "constructed"
    /\ platform = PlatformFields(env)
    /\ probes = PlatformProbes(env)
    /\ names = << >>
    /\ supported = << >>
    /\ unsupported = << >>
    /\ gitconfig \in LocalFiles
    /\ recommended \in RecommendedFiles(platform)
    /\ ssb_config = EmptyConf
    /\ local_config = EmptyConf
    /\ result = "none"
    /\ FilesIdle
    /\ RunIdle

\* _validate_platform_git_config(git_config_path, detected_platform)
ValidatePlatformGitConfig ==
    /\ pc = "constructed"
    /\ result = "none"
    /\ LET out == ValidateOutcome(gitconfig, platform, recommended)
       IN  /\ result' = out.result
           /\ ssb_config' = out.ssb
           /\ local_config' = out.local
    /\ UNCHANGED <<gitconfig, recommended>>
    /\ UNCHANGED <<classifier_vars, files_vars, run_vars>>

NextValidate == ValidatePlatformGitConfig

SpecValidate == InitValidate /\ [][NextValidate]_vars

-----------------------------------------------------------------------------
(* Specification of the validator of the local git files *)

InitFiles ==
    /\ env \in {Machine("Linux", None, SessionUnset, "reply", "reply")}
    /\ pc = "start"
    /\ platform = NoPlatform
    /\ probes = << >>
    /\ names = << >>
    /\ supported = << >>
    /\ unsupported = << >>
    /\ gitconfig = NoFile
    /\ recommended = NoFile
    /\ ssb_config = EmptyConf
    /\ local_config = EmptyConf
    /\ result = "none"
    /\ python_minor \in PythonMinors
    /\ gitignore \in LocalGitFiles
    /\ gitattributes \in LocalGitFiles
    /\ ssb_gitignore \in RecommendedGitFiles
    /\ ssb_gitattributes \in RecommendedGitFiles
    /\ files_result = "none"
    /\ RunIdle

\* _validate_local_git_files(gitignore_path, gitattributes_path)
ValidateLocalFiles ==
    /\ files_result = "none"
    /\ files_result' =
          ValidateLocalGitFiles(python_minor, gitignore, gitattributes,
                                ssb_gitignore, ssb_gitattributes)
    /\ UNCHANGED <<python_minor, gitignore, gitattributes, ssb_gitignore,
                   ssb_gitattributes>>
    /\ UNCHANGED <<classifier_vars, validator_vars, run_vars>>

NextFiles == ValidateLocalFiles

SpecFiles == InitFiles /\ [][NextFiles]_vars

-----------------------------------------------------------------------------
(* Specification of run() and main() *)

\* a machine without the ping program
NoPingMachine ==
    [Machine("Linux", None, SessionUnset, "reply", "reply")
        EXCEPT !.ping_installed = FALSE]

RunMachines == Machines \cup {NoPingMachine}

\* the options run() declares
Options == {"--validate", "--test", "--version"}

\* contents of ~/.gitconfig before the run
HOME_EMPTY == << >>
HOME_FULL == << Section("user"), Option("name", "x"), Option("email", "x") >>
HOME_OTHER ==
    << Section("core"), Option("autocrlf", "y"),
       Section("user"), Option("email", "y"), Option("name", "y") >>
HOME_NAME_ONLY == << Section("user"), Option("name", "x") >>
HOME_BLANK_NAME == << Section("user"), Option("name", ""), Option("email", "x") >>
HOME_CORE == << Section("core"), Option("autocrlf", "y") >>

HomeFiles ==
    {NoFile} \cup
    { File(t) : t \in {HOME_EMPTY, HOME_FULL, HOME_OTHER, HOME_NAME_ONLY,
                       HOME_BLANK_NAME, HOME_CORE} }

\* a recommended file that holds the template user name
RECOMMENDED_TEMPLATE ==
    << Section("core"), Option("autocrlf", "x"),
       Section("credential"), Option("helper", "username") >>

\* the recommended base configurations: the template user name is in the
\* one of prod-windows-citrix only
PlainTexts == {RECOMMENDED_EMPTY, RECOMMENDED_CORE}
BaseTexts == {RECOMMENDED_CORE, RECOMMENDED_TEMPLATE}

\* the files recommended/gitconfig-<platform name> of a clone
RepoFiles ==
    { (DAPLA :> d) @@ (PROD_LINUX :> l) @@ (PROD_WINDOWS_CITRIX :> c) :
        d \in PlainTexts, l \in PlainTexts, c \in BaseTexts }

\* the recommended file the package holds for a platform
BundledFiles(p) ==
    IF is_unsupported(p) THEN {NoFile}
    ELSE IF name(p) = PROD_WINDOWS_CITRIX THEN {File(t) : t \in BaseTexts}
    ELSE {File(t) : t \in PlainTexts}

\* what the clone and the reading of the cloned files can come to
RepoOutcomes ==
    { [status |-> st, files |-> << >>] : st \in {"clone_failed", "src_missing"} }
    \cup
    { [status |-> st, files |-> f] :
        st \in {"attributes_missing", "cloned"}, f \in RepoFiles }

\* what the user may type
UserInputs ==
    { [name |-> "Kari Nordmann", email |-> "kari@ssb.no"],
      [name |-> "", email |-> ""] }

InitRun ==
    /\ env \in RunMachines
    /\ pc = "run"
    /\ platform = NoPlatform
    /\ probes = << >>
    /\ names = << >>
    /\ supported = << >>
    /\ unsupported = << >>
    /\ gitconfig \in HomeFiles
    /\ recommended \in
          IF PlatformInitRaises(env) THEN {NoFile}
          ELSE BundledFiles(PlatformFields(env))
    /\ ssb_config = EmptyConf
    /\ local_config = EmptyConf
    /\ result = "none"
    /\ FilesIdle
    /\ argv \in SUBSET Options
    /\ package_installed \in BOOLEAN
    /\ original = gitconfig
    /\ backup = NoFile
    /\ tempdir \in {"absent", "present"}
    /\ created = FALSE
    /\ clone_attempted = FALSE
    /\ repo \in RepoOutcomes
    /\ user_input \in UserInputs
    /\ identity = NoIdentity
    /\ prompted = FALSE
    /\ main_called = FALSE
    /\ exit_code = "running"

\* parser.parse_args() accepts the command line
ArgsAccepted == "--validate" \in argv => ValidateEnabled(package_installed)

\* run() validates: the package is installed and args.validate is set
Validates == package_installed /\ "--validate" \in argv

\* parser.parse_args() rejects --validate: SystemExit(2)
RunRejects ==
    /\ pc = "run"
    /\ ~ArgsAccepted
    /\ pc' = "exited"
    /\ exit_code' = "2"
    /\ UNCHANGED <<env, platform, probes, names, supported, unsupported>>
    /\ UNCHANGED <<validator_vars, files_vars>>
    /\ UNCHANGED <<argv, package_installed, original, backup, tempdir, created,
                   clone_attempted, repo, user_input, identity, prompted, main_called>>

\* parse_optional_validation_argument(True): exit(0) or exit(1) on the value
\* of validate_git_config(), which constructs a Platform; an exception ends
\* the process with status 1
RunValidates ==
    /\ pc = "run"
    /\ ArgsAccepted
    /\ Validates
    /\ IF PlatformInitRaises(env)
       THEN /\ pc' = "raised"
            /\ probes' = <<PROD_HOST>>
            /\ exit_code' = "1"
            /\ UNCHANGED <<platform, result, ssb_config, local_config>>
       ELSE LET out == ValidateOutcome(gitconfig, PlatformFields(env), recommended)
            IN  /\ platform' = PlatformFields(env)
                /\ probes' = PlatformProbes(env)
                /\ result' = out.result
                /\ ssb_config' = out.ssb
                /\ local_config' = out.local
                /\ pc' = IF out.result \in {"True", "False"} THEN "exited" ELSE "raised"
                /\ exit_code' = IF out.result = "True" THEN "0" ELSE "1"
    /\ UNCHANGED <<env, names, supported, unsupported, gitconfig, recommended>>
    /\ UNCHANGED files_vars
    /\ UNCHANGED <<argv, package_installed, original, backup, tempdir, created,
                   clone_attempted, repo, user_input, identity, prompted, main_called>>

\* args.version: the version is printed and run() returns
RunVersion ==
    /\ pc = "run"
    /\ ArgsAccepted
    /\ ~Validates
    /\ "--version" \in argv
    /\ pc' = "returned"
    /\ exit_code' = "0"
    /\ UNCHANGED <<env, platform, probes, names, supported, unsupported>>
    /\ UNCHANGED <<validator_vars, files_vars>>
    /\ UNCHANGED <<argv, package_installed, original, backup, tempdir, created,
                   clone_attempted, repo, user_input, identity, prompted, main_called>>

\* main(args.test) is called
RunCallsMain ==
    /\ pc = "run"
    /\ ArgsAccepted
    /\ ~Validates
    /\ "--version" \notin argv
    /\ pc' = "main"
    /\ main_called' = TRUE
    /\ UNCHANGED <<env, platform, probes, names, supported, unsupported>>
    /\ UNCHANGED <<validator_vars, files_vars>>
    /\ UNCHANGED <<argv, package_installed, original, backup, tempdir, created,
                   clone_attempted, repo, user_input, identity, prompted, exit_code>>

\* main: the platform is detected; outside test mode an unsupported one ends
\* the process with sys.exit(1)
MainDetect ==
    /\ pc = "main"
    /\ IF PlatformInitRaises(env)
       THEN /\ pc' = "raised"
            /\ probes' = <<PROD_HOST>>
            /\ exit_code' = "1"
            /\ UNCHANGED platform
       ELSE /\ platform' = PlatformFields(env)
            /\ probes' = PlatformProbes(env)
            /\ IF Aborts(PlatformFields(env), "--test" \in argv)
               THEN pc' = "exited" /\ exit_code' = "1"
               ELSE pc' = "backup" /\ UNCHANGED exit_code
    /\ UNCHANGED <<env, names, supported, unsupported>>
    /\ UNCHANGED <<validator_vars, files_vars>>
    /\ UNCHANGED <<argv, package_installed, original, backup, tempdir, created,
                   clone_attempted, repo, user_input, identity, prompted, main_called>>

\* main: if backup_gitconfig(gitconfig_file): name, email = extract_name_email()
MainBackup ==
    /\ pc = "backup"
    /\ backup' = backup_gitconfig(gitconfig)
    /\ identity' = IF gitconfig.exists THEN extract_name_email(gitconfig)
                   ELSE NoIdentity
    /\ pc' = "identity"
    /\ UNCHANGED <<env, platform, probes, names, supported, unsupported>>
    /\ UNCHANGED <<validator_vars, files_vars>>
    /\ UNCHANGED <<argv, package_installed, original, tempdir, created,
                   clone_attempted, repo,
                   user_input, prompted, main_called, exit_code>>

\* main: if not (name and email): the test identity, or request_name_email()
MainIdentity ==
    /\ pc = "identity"
    /\ IF HasIdentity(identity)
       THEN UNCHANGED <<identity, prompted>>
       ELSE IF "--test" \in argv
            THEN identity' = JohnDoe /\ UNCHANGED prompted
            ELSE identity' = user_input /\ prompted' = TRUE
    /\ pc' = "base_config"
    /\ UNCHANGED <<env, platform, probes, names, supported, unsupported>>
    /\ UNCHANGED <<validator_vars, files_vars>>
    /\ UNCHANGED <<argv, package_installed, original, backup, tempdir, created,
                   clone_attempted, repo, user_input, main_called, exit_code>>

\* main: set_base_config(detected_platform, test)
MainSetBaseConfig ==
    /\ pc = "base_config"
    /\ IF TempDirRaises(tempdir)
       THEN \* TempDir(temp_dir) raises RuntimeError
            /\ pc' = "raised"
            /\ exit_code' = "1"
            /\ UNCHANGED <<gitconfig, tempdir, created, clone_attempted>>
       ELSE \* the directory is made on entry and removed on exit from the block
            /\ created' = TRUE
            /\ clone_attempted' = TRUE
            /\ tempdir' = "absent"
            /\ IF \/ repo.status \in {"clone_failed", "src_missing"}
                  \/ SrcLabel(platform, "--test" \in argv) \notin DOMAIN repo.files
               THEN /\ pc' = "raised"
                    /\ exit_code' = "1"
                    /\ UNCHANGED gitconfig
               ELSE /\ gitconfig' =
                          File(BaseConfig(platform,
                                  repo.files[SrcLabel(platform, "--test" \in argv)]))
                    /\ IF repo.status = "attributes_missing"
                       THEN pc' = "raised" /\ exit_code' = "1"
                       ELSE pc' = "name_email" /\ UNCHANGED exit_code
    /\ UNCHANGED <<env, platform, probes, names, supported, unsupported>>
    /\ UNCHANGED <<recommended, ssb_config, local_config, result>>
    /\ UNCHANGED files_vars
    /\ UNCHANGED <<argv, package_installed, original, backup, repo, user_input,
                   identity, prompted, main_called>>

\* main: set_name_email(name, email), then main and run return
MainSetNameEmail ==
    /\ pc = "name_email"
    /\ gitconfig' = File(set_name_email(gitconfig.text, identity))
    /\ pc' = "done"
    /\ exit_code' = "0"
    /\ UNCHANGED <<env, platform, probes, names, supported, unsupported>>
    /\ UNCHANGED <<recommended, ssb_config, local_config, result>>
    /\ UNCHANGED files_vars
    /\ UNCHANGED <<argv, package_installed, original, backup, tempdir, created,
                   clone_attempted, repo, user_input, identity, prompted, main_called>>

\* validate_git_config() called once main has completed
ValidateAfterMain ==
    /\ pc = "done"
    /\ result = "none"
    /\ LET out == ValidateOutcome(gitconfig, PlatformFields(env), recommended)
       IN  /\ result' = out.result
           /\ ssb_config' = out.ssb
           /\ local_config' = out.local
    /\ UNCHANGED <<gitconfig, recommended>>
    /\ UNCHANGED <<classifier_vars, files_vars, run_vars>>

NextRun ==
    \/ RunRejects
    \/ RunValidates
    \/ RunVersion
    \/ RunCallsMain
    \/ MainDetect
    \/ MainBackup
    \/ MainIdentity
    \/ MainSetBaseConfig
    \/ MainSetNameEmail
    \/ ValidateAfterMain

SpecRun == InitRun /\ [][NextRun]_vars

-----------------------------------------------------------------------------
(* Claims about the classifier *)

\* the values of DAPLA_REGION that are the Dapla marker
DaplaMarkers == {"DAPLA_LAB", "BIP"}

\* the values of SESSIONNAME that contain the marker 'ICA'
CitrixSessions ==
    {[isset |-> TRUE, value |-> ICA_TCP], [isset |-> TRUE, value |-> RDP_ICA]}

\* the label the production rule gives on this machine
ProdLabelOK(label) ==
    /\ env.os = "Linux" => label = PROD_LINUX
    /\ env.os = "Windows" /\ env.SESSIONNAME \in CitrixSessions
          => label = PROD_WINDOWS_CITRIX
    /\ env.os = "Windows" /\ env.SESSIONNAME \notin CitrixSessions
          => label = PROD_WINDOWS_VDI

C2_DaplaRule ==
    \A i \in DOMAIN names :
        /\ ~platform.prod_zone /\ env.DAPLA_REGION \in DaplaMarkers
              => platform.dapla /\ names[i] = DAPLA
        /\ env.DAPLA_REGION \notin DaplaMarkers
              => ~platform.dapla /\ names[i] # DAPLA

C2_Witness ==
    /\ names # << >>
    /\ env.DAPLA_REGION = "BIP"
    /\ env.os = "Windows"
    /\ env.SESSIONNAME \in CitrixSessions
    /\ env.net[ADM_HOST] = "reply"
    /\ names[1] = DAPLA

\* C3: production probe failed, no Dapla marker, admin probe succeeded: name()
\* returns adm-windows on Windows and adm-mac on a Mac, whatever SESSIONNAME.
C3_AdmRule ==
    \A i \in DOMAIN names :
        /\ env.net[PROD_HOST] # "reply"
        /\ env.DAPLA_REGION \notin DaplaMarkers
        /\ env.net[ADM_HOST] = "reply"
        => /\ probes = <<PROD_HOST, ADM_HOST>>
           /\ env.os = "Windows" => names[i] = ADM_WINDOWS
           /\ env.os = "Darwin" => names[i] = ADM_MAC

C3_Witness ==
    /\ names # << >>
    /\ env.net[PROD_HOST] = "dns_failure"
    /\ env.DAPLA_REGION = "CLOUD_RUN"
    /\ env.os = "Darwin"
    /\ env.SESSIONNAME \in CitrixSessions
    /\ names[1] = ADM_MAC

\* the machines on which no rule of the classifier matches
NoRuleMatches ==
    /\ env.DAPLA_REGION \notin DaplaMarkers
    /\ \/ env.net[PROD_HOST] # "reply" /\ env.net[ADM_HOST] # "reply"
       \/ env.net[PROD_HOST] = "reply" /\ env.os = "Darwin"
       \/ env.net[PROD_HOST] # "reply" /\ env.os = "Linux"
       \/ env.os \notin {"Linux", "Windows", "Darwin"}

\* C4: every call of name() returns one of the seven labels, a later call on the
\* same object returns the same label as the first, and every machine on which
\* no rule matches gets unknown.
C4_TotalDeterministic ==
    \A i \in DOMAIN names :
        /\ names[i] \in PlatformName
        /\ names[i] = names[1]
        /\ NoRuleMatches => names[i] = UNKNOWN

C4_Witness ==
    /\ Len(names) = 2
    /\ env.net[PROD_HOST] = "reply"
    /\ env.os = "Darwin"
    /\ names[2] = UNKNOWN

\* the labels that have a published reference configuration
Published == {DAPLA, PROD_LINUX, PROD_WINDOWS_CITRIX}

\* C5: is_supported() is true exactly on dapla, prod-linux, prod-windows-citrix
\* (false on unknown, prod-windows-vdi, adm-windows, adm-mac), and it is the
\* negation of is_unsupported().
C5_SupportedTable ==
    \A i \in DOMAIN supported :
        /\ \A k \in DOMAIN names : supported[i] = (names[k] \in Published)
        /\ \A j \in DOMAIN unsupported : supported[i] = ~unsupported[j]

C5_Witness ==
    /\ names # << >>
    /\ supported # << >>
    /\ unsupported # << >>
    /\ names[1] = PROD_WINDOWS_VDI
    /\ supported[1] = FALSE
    /\ unsupported[1] = TRUE

\* C6: constructing a Platform never raises: every probe outcome other than a
\* reply, an error while issuing the probe included, becomes the boolean false.
C6_ClassifierNeverFails ==
    /\ pc # "raised"
    /\ pc = "constructed" /\ PROD_HOST \in {probes[k] : k \in DOMAIN probes}
          => platform.prod_zone = (env.net[PROD_HOST] = "reply")

-----------------------------------------------------------------------------
(* Claims about the validator *)

\* the (section, key, value) triples of a dictionary
Items(conf) ==
    UNION { { <<sec, key, conf[sec][key]>> : key \in DOMAIN conf[sec] } :
            sec \in DOMAIN conf }

\* the validation has compared the two dictionaries: the platform is supported,
\* the local file exists and both texts were read
Compared ==
    /\ result \in {"True", "False"}
    /\ name(platform) \in Published
    /\ gitconfig.exists

\* the user section of the local dictionary, if there is one, has name and email
UserComplete(conf) ==
    "user" \in DOMAIN conf => {"name", "email"} \subseteq DOMAIN conf["user"]

\* C7: on a supported platform, for an existing local file whose user section,
\* if present, has name and email, the validation returns True exactly when
\* every (section, key, value) of the reference is in the local configuration;
\* an empty local configuration fails against a reference with any key.
C7_RequiredMinimum ==
    Compared /\ UserComplete(local_config) =>
        /\ (result = "True") <=> (Items(ssb_config) \subseteq Items(local_config))
        /\ gitconfig.text = << >> /\ Items(ssb_config) # {} => result = "False"

C7_Witness ==
    /\ Compared
    /\ recommended.text = RECOMMENDED_CORE
    /\ gitconfig.text =
          << Section("user"), Option("name", "x"), Option("email", "x"),
             Section("core"), Option("autocrlf", "y") >>
    /\ result = "False"

\* the sections, keys and values of the configurations
SectionNames == {"user", "core"}
KeyNames == {"name", "email", "autocrlf"}
Values == {"", "x", "y"}

\* conf with the keys of ks that it lacks in section sec set to value, the
\* section created when it is missing
Extended(conf, sec, ks, value) ==
    LET old == IF sec \in DOMAIN conf THEN conf[sec] ELSE << >>
        new == [key \in (ks \ DOMAIN old) |-> value]
    IN  [s \in DOMAIN conf \cup {sec} |-> IF s = sec THEN old @@ new ELSE conf[s]]

\* what sec and ks add to conf is not in the reference
AbsentFromReference(conf, sec, ks) ==
    sec \in DOMAIN ssb_config =>
        (ks \ (IF sec \in DOMAIN conf THEN DOMAIN conf[sec] ELSE {}))
            \cap DOMAIN ssb_config[sec] = {}

C9_PartialUserRejected ==
    Compared =>
        /\ ~UserComplete(local_config) => result = "False"
        /\ "user" \notin DOMAIN local_config
           /\ Items(ssb_config) \subseteq Items(local_config) => result = "True"

C9_Witness ==
    /\ Compared
    /\ recommended.text = RECOMMENDED_CORE
    /\ gitconfig.text =
          << Section("core"), Option("autocrlf", "x"),
             Section("user"), Option("name", "x") >>
    /\ result = "False"

\* C10: a local user section whose name or email is present with an empty value
\* makes the validation return False.
C10_EmptyIdentityRejected ==
    /\ Compared
    /\ "user" \in DOMAIN local_config
    /\ \E key \in {"name", "email"} :
          key \in DOMAIN local_config["user"] /\ local_config["user"][key] = ""
    => result = "False"

\* the triples of a dictionary other than the name and email of its user section
NonIdentityItems(conf) ==
    { it \in Items(conf) : ~(it[1] = "user" /\ it[2] \in {"name", "email"}) }

\* C11: the values of user.name and user.email are never compared with the
\* reference: with a complete local user section the validation returns True
\* exactly when the other triples of the reference are in the local
\* configuration, whatever name and email are, also when the reference has a
\* user section of its own.
C11_IdentityByPresenceOnly ==
    Compared /\ "user" \in DOMAIN local_config /\ UserComplete(local_config) =>
        ((result = "True")
            <=> (NonIdentityItems(ssb_config) \subseteq Items(local_config)))

\* the platform names without a reference configuration
NotPublished == {UNKNOWN, PROD_WINDOWS_VDI, ADM_WINDOWS, ADM_MAC}

\* C12: on an unsupported platform the validation returns False without reading
\* or comparing anything, whatever the local file is: empty, equal to a
\* reference, or missing (no error is raised for a missing file).
C12_UnsupportedIsFalse ==
    result # "none" /\ name(platform) \in NotPublished =>
        /\ result = "False"
        /\ ssb_config = EmptyConf
        /\ local_config = EmptyConf

C12_Witness ==
    /\ result = "False"
    /\ name(platform) = ADM_MAC
    /\ ~gitconfig.exists

TextSections(text) ==
    { text[i].key : i \in {j \in DOMAIN text : text[j].kind = "section"} }
TextKeys(text, sec) ==
    { text[i].key :
        i \in { j \in DOMAIN text :
                  /\ text[j].kind = "option"
                  /\ \E h \in 1..(j - 1) :
                        /\ text[h] = Section(sec)
                        /\ \A m \in (h + 1)..(j - 1) : text[m].kind = "option" } }

\* C14: on a supported platform, a local file equal to the platform's reference
\* validates True, provided it has no user section or one with name and email.
C14_Reflexive ==
    /\ result # "none"
    /\ name(platform) \in Published
    /\ gitconfig.exists
    /\ gitconfig.text = recommended.text
    /\ "user" \in TextSections(gitconfig.text)
          => {"name", "email"} \subseteq TextKeys(gitconfig.text, "user")
    => result = "True"

C14_Witness ==
    /\ result = "True"
    /\ name(platform) = DAPLA
    /\ gitconfig.text = recommended.text
    /\ recommended.text = RECOMMENDED_FULL

\* C20: a Platform() issues at most two probes, the production probe first; the
\* admin probe only after the production probe has failed and without a Dapla
\* marker; nothing after a successful production probe.
C20_ProbeOrder ==
    /\ Len(probes) <= 2
    /\ probes # << >> => probes[1] = PROD_HOST /\ env.DAPLA_REGION \notin DaplaMarkers
    /\ Len(probes) = 2 => probes[2] = ADM_HOST /\ env.net[PROD_HOST] # "reply"
    /\ pc = "constructed" /\ env.net[PROD_HOST] = "reply"
       /\ env.DAPLA_REGION \notin DaplaMarkers => probes = <<PROD_HOST>>

C20_Witness ==
    /\ pc = "constructed"
    /\ probes = <<PROD_HOST, ADM_HOST>>
    /\ env.net[ADM_HOST] = "timeout"

-----------------------------------------------------------------------------
(* Claims about the validator of the local git files *)

\* a line without its trailing blanks
Trimmed(line) ==
    LET keep == {n \in 0..Len(line) : \A i \in (n + 1)..Len(line) : line[i] = " "}
        n == CHOOSE n \in keep : \A m \in keep : n <= m
    IN  SubSeq(line, 1, n)

\* the non-comment lines of a file, trimmed, as a set
NonCommentLines(file) ==
    { l \in { Trimmed(file.text[i]) : i \in DOMAIN file.text } :
        l = << >> \/ l[1] # "#" }

\* the recommended lines are all in the local files
LocalFilesCover ==
    /\ NonCommentLines(ssb_gitignore) \subseteq NonCommentLines(gitignore)
    /\ NonCommentLines(ssb_gitattributes) \subseteq NonCommentLines(gitattributes)

\* C16: when both local files exist, _validate_local_git_files returns True
\* exactly when every non-comment line of the recommended gitignore (trailing
\* whitespace stripped) is a non-comment line of the local .gitignore, and the
\* same for gitattributes, whatever the order, the repetitions and the extras.
C16_LocalFilesCover ==
    files_result # "none" /\ gitignore.exists /\ gitattributes.exists =>
        /\ files_result \in {"True", "False"}
        /\ (files_result = "True") <=> LocalFilesCover

\* C16 on Python 3.10 and later
C16_LocalFilesCoverFrom310 ==
    /\ files_result # "none"
    /\ gitignore.exists
    /\ gitattributes.exists
    /\ python_minor >= 10
    => /\ files_result \in {"True", "False"}
       /\ (files_result = "True") <=> LocalFilesCover

-----------------------------------------------------------------------------
(* Claims about run() and main() *)

\* C15: once run() has dispatched, --validate with the package installed has
\* never called main and the exit code is 0 when validate_git_config()
\* returned True and 1 when it returned False; --validate without the package
\* has ended with exit code 2, nothing validated and main not called; without
\* arguments main has been called, the package installed or not.
C15_RunDispatch ==
    pc # "run" =>
        /\ "--validate" \in argv /\ package_installed =>
              /\ ~main_called
              /\ result = "True" => exit_code = "0"
              /\ result = "False" => exit_code = "1"
        /\ "--validate" \in argv /\ ~package_installed =>
              /\ exit_code = "2"
              /\ result = "none"
              /\ ~main_called
        /\ argv = {} => main_called

\* a failing validation has ended the process with code 1, main not called
C15_Witness ==
    /\ argv = {"--validate"}
    /\ package_installed
    /\ result = "False"
    /\ exit_code = "1"
    /\ ~main_called

\* C17: whenever a step changes ~/.gitconfig in a run that started with a
\* ~/.gitconfig, the backup file already holds the original content.
C17_BackupBeforeOverwrite ==
    [][ original.exists /\ gitconfig' # gitconfig =>
            backup = File(original.text) /\ backup' = backup ]_vars

\* main has completed, the original file replaced and kept in the backup
C17_Witness ==
    /\ pc = "done"
    /\ original.exists
    /\ gitconfig # original
    /\ backup = File(original.text)

\* the original file yields a non-empty user.name and a non-empty user.email
YieldsBoth == original \in {File(HOME_FULL), File(HOME_OTHER)}

\* the name and email git reads from it
Yielded ==
    IF original = File(HOME_FULL) THEN [name |-> "x", email |-> "x"]
    ELSE [name |-> "y", email |-> "y"]

\* the last lines of ~/.gitconfig are a user section with this name and email
Written(id) ==
    /\ Len(gitconfig.text) >= 3
    /\ SubSeq(gitconfig.text, Len(gitconfig.text) - 2, Len(gitconfig.text))
          = << Section("user"), Option("name", id.name), Option("email", id.email) >>

\* C18: once main has settled the identity: if the original ~/.gitconfig
\* yields both a name and an email, the user was not prompted and the identity
\* is the one extracted; otherwise the user was prompted and the identity is
\* what was typed, or in test mode it is the test identity without a prompt.
\* When main has completed, the identity is the one written in ~/.gitconfig.
C18_IdentityReuse ==
    /\ pc \in {"base_config", "name_email", "done"} =>
          /\ YieldsBoth => ~prompted /\ identity = Yielded
          /\ ~YieldsBoth /\ "--test" \notin argv =>
                prompted /\ identity = user_input
          /\ ~YieldsBoth /\ "--test" \in argv =>
                ~prompted /\ identity = JohnDoe
    /\ pc = "done" => Written(identity)

\* the identity of the original file written into the new one, with no prompt
C18_Witness ==
    /\ pc = "done"
    /\ original = File(HOME_OTHER)
    /\ ~prompted
    /\ Written([name |-> "y", email |-> "y"])
    /\ gitconfig # original

\* C19: after main has completed outside test mode on a supported platform,
\* the cloned recommended file being the bundled reference of the platform,
\* validate_git_config() returns True on the resulting ~/.gitconfig.
C19_RunFixesValidation ==
    /\ pc = "done"
    /\ "--test" \notin argv
    /\ name(platform) \in Published
    /\ repo.status = "cloned"
    /\ repo.files[name(platform)] = recommended.text
    /\ result # "none"
    => result = "True"

\* C19 on the platforms where the base configuration is copied unchanged
C19_RunFixesValidationNoTemplate ==
    /\ pc = "done"
    /\ "--test" \notin argv
    /\ name(platform) \in Published \ {PROD_WINDOWS_CITRIX}
    /\ repo.status = "cloned"
    /\ repo.files[name(platform)] = recommended.text
    /\ result # "none"
    => result = "True"

-----------------------------------------------------------------------------
(* Claims about the parsing of a configuration text *)

\* the text has two headers of one section
RepeatsSection(text) ==
    \E i, j \in DOMAIN text :
        i < j /\ text[i].kind = "section" /\ text[j] = text[i]

\* the text sets one key twice in one section
RepeatsKey(text) ==
    \E i, j \in DOMAIN text :
        /\ i < j
        /\ text[i].kind = "option" /\ text[j].kind = "option"
        /\ text[i].key = text[j].key
        /\ SectionAt(text, i) = SectionAt(text, j)

\* the dictionary holds, for every key the text sets, the value set last
HoldsLastValues(conf, text) ==
    \A j \in DOMAIN text :
        text[j].kind = "option" =>
            LET sec == SectionAt(text, j)
                js == Settings(text, sec, text[j].key)
                last == CHOOSE k \in js : \A l \in js : l <= k
            IN  /\ sec \in DOMAIN conf
                /\ text[j].key \in DOMAIN conf[sec]
                /\ conf[sec][text[j].key] = text[last].value

\* C21: on a supported platform, a local text that starts with a section header
\* and repeats a key inside a section, or a section header, is parsed: the
\* validation returns True or False, on a dictionary that holds the last value
\* of every key.
C21_LaterDuplicateOverwrites ==
    /\ result # "none"
    /\ name(platform) \in Published
    /\ gitconfig.exists
    /\ ~BadConfig(gitconfig.text)
    /\ RepeatsSection(gitconfig.text) \/ RepeatsKey(gitconfig.text)
    => /\ result \in {"True", "False"}
       /\ HoldsLastValues(local_config, gitconfig.text)

-----------------------------------------------------------------------------
(* Claims about the unsupported platforms and about set_base_config *)

\* main has detected the platform
Detected == main_called /\ pc # "main" /\ platform # NoPlatform

\* the first lines of ~/.gitconfig are the lines of the text
StartsWith(text) ==
    /\ Len(gitconfig.text) >= Len(text)
    /\ SubSeq(gitconfig.text, 1, Len(text)) = text

\* C22: outside test mode, once main has detected an unsupported platform the
\* process has ended with exit code 1 and nothing was touched: no backup file,
\* no prompt, no clone, no temporary directory, ~/.gitconfig as it was. In test
\* mode main never ends on that check, and the base configuration it installs
\* is the file gitconfig-dapla of the clone whatever the platform.
C22_UnsupportedAborts ==
    /\ Detected /\ "--test" \notin argv /\ name(platform) \in NotPublished =>
          /\ pc = "exited"
          /\ exit_code = "1"
          /\ backup = NoFile
          /\ ~prompted
          /\ ~clone_attempted
          /\ ~created
          /\ gitconfig = original
    /\ Detected /\ "--test" \in argv =>
          /\ pc # "exited"
          /\ pc = "name_email" => gitconfig = File(repo.files[DAPLA])
          /\ pc = "done" => StartsWith(repo.files[DAPLA]) /\ Written(identity)

\* main has ended on an unsupported platform, an existing ~/.gitconfig untouched
C22_Witness ==
    /\ pc = "exited"
    /\ main_called
    /\ argv = {}
    /\ name(platform) = PROD_WINDOWS_VDI
    /\ exit_code = "1"
    /\ original.exists
    /\ gitconfig = original
    /\ backup = NoFile

\* C23: in the step of set_base_config: with ~/temp-ssb-gitconfig existing it
\* raises with no clone started, the directory and ~/.gitconfig as they were;
\* with a clone that fails it raises with ~/.gitconfig as it was; ~/.gitconfig
\* changes only when a clone was started and succeeded; and when the run has
\* created the directory, the directory is gone at the end of the step.
C23_OverwriteAfterClone ==
    [][ pc = "base_config" =>
          /\ tempdir = "present" =>
                /\ pc' = "raised"
                /\ tempdir' = "present"
                /\ ~created' /\ ~clone_attempted'
                /\ gitconfig' = gitconfig
          /\ tempdir = "absent" /\ repo.status = "clone_failed" =>
                /\ pc' = "raised"
                /\ gitconfig' = gitconfig
          /\ gitconfig' # gitconfig =>
                clone_attempted' /\ repo.status # "clone_failed"
          /\ created' => tempdir' = "absent" ]_vars

\* the clone has failed: the directory made for it is gone, ~/.gitconfig is
\* as it was
C23_Witness ==
    /\ pc = "raised"
    /\ created
    /\ clone_attempted
    /\ repo.status = "clone_failed"
    /\ tempdir = "absent"
    /\ original.exists
    /\ gitconfig = original

=============================================================================
